---------------------------- MODULE Spec2Model ----------------------------
(* Model of src/src/App.tsx: the performance result pipeline of the       *)
(* Website Performance Analyzer (React component App).                    *)
(*                                                                        *)
(* Numbers.  A JavaScript number is held as a record [k, s, m, x]:        *)
(*   k = "num"  : the double that JavaScript writes as s * m * 10^x: s is *)
(*                the sign (1, -1, and 0 for zero), m the sequence of the *)
(*                decimal digits, without zeros in front or behind,       *)
(*   k = "inf"  : Infinity (s = 1) or -Infinity (s = -1),                 *)
(*   k = "nan"  : NaN,                                                    *)
(*   k = "null" : JSON null (what JSON.stringify writes for NaN, and what *)
(*                JSON.parse reads back).                                 *)
(* Conversions and products are rounded to the nearest double as IEEE 754 *)
(* prescribes, on digit sequences of any length; 0 and -0 are one number. *)
(* Strings that the code parses (audit display values) are sequences of   *)
(* characters, so that the regular expression and parseFloat are          *)
(* computed character by character.                                       *)
(* The date of a record is drawn from DATES; setItem either works or      *)
(* raises for a whole session (writable).                                 *)
(* Specifications.  Spec is the component driven through its page;        *)
(* FairSpec adds that a pending request settles; ClassifySpec applies     *)
(* getMetricColor to arguments drawn at the start.                        *)
EXTENDS Integers, Sequences, FiniteSets, TLC

VARIABLES
    apiKey,     \* import.meta.env.VITE_GOOGLE_PAGE_SPEED_API_KEY is set
    phase,      \* "boot": mounted, load effect not run; "ready"; "crashed"
    url,        \* useState url (the text field)
    strategy,   \* useState strategy (the selector)
    results,    \* useState results (the history list, index 0 first)
    loading,    \* useState loading
    error,      \* useState error
    storage,    \* localStorage item 'pageSpeedResults'
    op,         \* the handler suspended at its await, with its closure
    writable,   \* localStorage.setItem returns; when FALSE it raises
                \* (quota exceeded, storage disabled), for the whole session
    last,       \* what the handler that finished last did, while none runs
    probe       \* arguments and result of a call of getMetricColor on its own

vars == <<apiKey, phase, url, strategy, results, loading, error, storage, op, writable, last, probe>>

---------------------------------------------------------------------------
(* Bounds and input sets *)

\* new analyses are started while the history is shorter than MaxLen
MaxLen == 2

\* largest cutoff, in thousandths, given to getMetricColor on its own
ProbeMax == 5

URLS == {"", "a.com"}
STRATEGIES == {"mobile", "desktop"}
\* values of new Date().toLocaleString()
DATES == {"10/30/2026, 9:00:00 AM"}

---------------------------------------------------------------------------
(* Natural numbers of any size: the sequence of the decimal digits, the   *)
(* first one not 0; zero is <<>>.                                         *)

\* the element of a set of one element: The({F(v) : v \in {e}}) is F(e),
\* with e evaluated once
The(S) == CHOOSE v \in S : TRUE

Max(a, b) == IF a >= b THEN a ELSE b

\* the first position of the sequence b of truth values that holds TRUE,
\* Len(b) + 1 when there is none
FirstPos(b) ==
    The({IF \A i \in 1..Len(v) : ~v[i] THEN Len(v) + 1
         ELSE CHOOSE i \in 1..Len(v) : v[i] /\ \A j \in 1..(i - 1) : ~v[j]
         : v \in {b}})

\* the last position of the sequence b of truth values that holds TRUE,
\* 0 when there is none
LastPos(b) ==
    The({IF \A i \in 1..Len(v) : ~v[i] THEN 0
         ELSE CHOOSE i \in 1..Len(v) : v[i] /\ \A j \in (i + 1)..Len(v) : ~v[j]
         : v \in {b}})

Zeros(n) == [i \in 1..n |-> 0]

\* a without the digits 0 in front
Trim(a) == The({SubSeq(v, FirstPos([i \in 1..Len(v) |-> v[i] # 0]), Len(v)) : v \in {a}})

\* a * 10^n
Shift(a, n) == The({IF v = <<>> THEN <<>> ELSE v \o Zeros(n) : v \in {a}})

\* a < b for digit sequences of one length: the first digit that differs
\* decides
SeqLt(a, b) ==
    The({\E k \in {FirstPos([i \in 1..Len(p[1]) |-> p[1][i] # p[2][i]])} :
            k <= Len(p[1]) /\ p[1][k] < p[2][k]
         : p \in {<<a, b>>}})

\* a < b
BigLt(a, b) ==
    The({IF Len(p[1]) # Len(p[2]) THEN Len(p[1]) < Len(p[2]) ELSE SeqLt(p[1], p[2])
         : p \in {<<a, b>>}})

\* a <= b
BigLeq(a, b) == ~BigLt(b, a)

\* 2 * a: a digit of 5 or more carries 1 into the digit before it
Double(a) ==
    The({(IF v # <<>> /\ v[1] >= 5 THEN <<1>> ELSE <<>>)
            \o [i \in 1..Len(v) |->
                  (2 * v[i] + (IF i < Len(v) /\ v[i + 1] >= 5 THEN 1 ELSE 0)) % 10]
         : v \in {a}})

\* a \div 2: an odd digit carries 10 into the digit after it
Halve(a) ==
    The({Trim([i \in 1..Len(v) |->
                  ((IF i > 1 THEN (v[i - 1] % 2) * 10 ELSE 0) + v[i]) \div 2])
         : v \in {a}})

\* a + 1
Inc(a) ==
    The({The({IF k = 0 THEN <<1>> \o Zeros(Len(v))
              ELSE [i \in 1..Len(v) |->
                      IF i < k THEN v[i] ELSE IF i = k THEN v[i] + 1 ELSE 0]
              : k \in {LastPos([i \in 1..Len(v) |-> v[i] # 9])}})
         : v \in {a}})

\* a - 1, for a that is not zero
Dec(a) ==
    The({The({Trim([i \in 1..Len(v) |->
                      IF i < k THEN v[i] ELSE IF i = k THEN v[i] - 1 ELSE 9])
              : k \in {LastPos([i \in 1..Len(v) |-> v[i] # 0])}})
         : v \in {a}})

\* a - b, for a >= b: position i borrows 1 when the digits of a after it
\* write less than those of b
Sub(a, b) ==
    The({LET n == Len(p[1])
             pad == Len(p[1]) - Len(p[2])
             bd(i) == IF i > pad THEN p[2][i - pad] ELSE 0
             borrow(i) ==
                 IF \A j \in (i + 1)..n : p[1][j] = bd(j) THEN 0
                 ELSE IF \E k \in {CHOOSE j \in (i + 1)..n :
                                      /\ p[1][j] # bd(j)
                                      /\ \A l \in (i + 1)..(j - 1) : p[1][l] = bd(l)} :
                            p[1][k] < bd(k)
                 THEN 1 ELSE 0
         IN  Trim([i \in 1..n |-> (p[1][i] - bd(i) - borrow(i) + 10) % 10])
         : p \in {<<a, b>>}})

RECURSIVE TimesPow2(_, _)
\* a * 2^n
TimesPow2(a, n) ==
    IF n = 0 THEN a
    ELSE IF n = 1 THEN Double(a)
    ELSE The({TimesPow2(h, n - n \div 2) : h \in {TimesPow2(a, n \div 2)}})

\* 5 * a
Times5(a) == Halve(Shift(a, 1))

RECURSIVE TimesPow5(_, _)
\* a * 5^n
TimesPow5(a, n) ==
    IF n = 0 THEN a
    ELSE IF n = 1 THEN Times5(a)
    ELSE The({TimesPow5(h, n - n \div 2) : h \in {TimesPow5(a, n \div 2)}})

---------------------------------------------------------------------------
(* Numbers *)

RECURSIVE Pow10(_)
\* 10 to the power n, n >= 0
Pow10(n) == IF n = 0 THEN 1 ELSE 10 * Pow10(n - 1)

Abs(i) == IF i < 0 THEN 0 - i ELSE i
Sign(i) == IF i > 0 THEN 1 ELSE IF i < 0 THEN 0 - 1 ELSE 0

RECURSIVE NumDigits(_)
\* the number of decimal digits of the integer i >= 0
NumDigits(i) == IF i < 10 THEN 1 ELSE 1 + NumDigits(i \div 10)

\* the digits of the integer i >= 0
IntDigits(i) ==
    The({IF v = 0 THEN <<>>
         ELSE [j \in 1..NumDigits(v) |-> (v \div Pow10(NumDigits(v) - j)) % 10]
         : v \in {i}})

\* the number sign * d * 10^x, for a sequence of digits d: the mantissa is
\* written without zeros in front or behind, and zero is written with
\* sign 0 and exponent 0
Decimal(sign, d, x) ==
    The({The({IF end = 0 THEN [k |-> "num", s |-> 0, m |-> <<>>, x |-> 0]
              ELSE [k |-> "num", s |-> sign, m |-> SubSeq(t, 1, end),
                    x |-> x + Len(t) - end]
              : end \in {LastPos([i \in 1..Len(t) |-> t[i] # 0])}})
         : t \in {Trim(d)}})

NaN == [k |-> "nan", s |-> 0, m |-> <<>>, x |-> 0]
\* Infinity (sign 1) and -Infinity (sign -1)
Inf(sign) == [k |-> "inf", s |-> sign, m |-> <<>>, x |-> 0]
JNull == [k |-> "null", s |-> 0, m |-> <<>>, x |-> 0]
Undefined == [k |-> "undefined", s |-> 0, m |-> <<>>, x |-> 0]

\* 10^(Order(v) - 1) <= |v| < 10^Order(v), for a number v that is not 0
Order(v) == Len(v.m) + v.x

\* |a| <= |b| for numbers a, b that are not 0: the orders decide, and
\* between numbers of one order the digits
MagLeq(a, b) ==
    The({IF Order(p[1]) # Order(p[2]) THEN Order(p[1]) < Order(p[2])
         ELSE \E n \in {Max(Len(p[1].m), Len(p[2].m))} :
                 ~SeqLt(p[2].m \o Zeros(n - Len(p[2].m)), p[1].m \o Zeros(n - Len(p[1].m)))
         : p \in {<<a, b>>}})

\* a <= b for numbers
NumLeq(a, b) ==
    CASE a.s < b.s -> TRUE
      [] a.s > b.s -> FALSE
      [] a.s = 0 -> TRUE
      [] a.s = 1 -> MagLeq(a, b)
      [] OTHER -> MagLeq(b, a)

---------------------------------------------------------------------------
(* Doubles.  A finite number of the program is a double, f * 2^e with     *)
(* f < 2^53 and -1074 <= e <= 971; it is held by the decimal that         *)
(* JavaScript writes for it, the shortest one that reads back as the same *)
(* double.  Between doubles, the order of these decimals is the order of  *)
(* the doubles.                                                           *)

\* 2^52 and 2^53
Two52 == <<4, 5, 0, 3, 5, 9, 9, 6, 2, 7, 3, 7, 0, 4, 9, 6>>
Two53 == <<9, 0, 0, 7, 1, 9, 9, 2, 5, 4, 7, 4, 0, 9, 9, 2>>

\* the least and the greatest binary exponent of a double
MinExp == 0 - 1074
MaxExp == 971

\* an integer that is at most the logarithm in base 2 of 10^n, and less
\* than 2 + |n| / 1000 below it
Log2Pow10(n) ==
    IF n >= 0 THEN (n * 3321) \div 1000
    ELSE 0 - (((0 - n) * 3322 + 999) \div 1000)

RECURSIVE Normalise(_, _, _)
\* d doubled, and e raised by one, until num < d
Normalise(num, d, e) ==
    IF BigLt(num, d) THEN [d |-> d, e |-> e]
    ELSE The({Normalise(num, d2, e + 1) : d2 \in {Double(d)}})

\* one step of the division of st.r by st.d, bit by bit: the divisor is
\* halved, and the bit is 1 when it goes into the remainder
DivStep(st) ==
    The({IF BigLeq(d, st.r)
         THEN [r |-> Sub(st.r, d), d |-> d, q |-> Inc(Double(st.q))]
         ELSE [r |-> st.r, d |-> d, q |-> Double(st.q)]
         : d \in {Halve(st.d)}})

RECURSIVE DivLoop(_, _)
\* n steps of the division
DivLoop(st, n) ==
    IF n = 1 THEN The({DivStep(v) : v \in {st}})
    ELSE The({DivLoop(h, n - n \div 2) : h \in {DivLoop(st, n \div 2)}})

\* the quotient st.q with the remainder st.r of a division by st.d, rounded
\* to the nearest integer, a half going to the even one; f * 2^e is the
\* double, "zero" and "inf" say that it is 0 or beyond the largest double
RoundHalfEven(st, e) ==
    The({IF f = <<>> THEN [k |-> "zero", f |-> <<>>, e |-> 0]
         ELSE IF f = Two53
         THEN (IF e + 1 > MaxExp THEN [k |-> "inf", f |-> <<>>, e |-> 0]
               ELSE [k |-> "fin", f |-> Two52, e |-> e + 1])
         ELSE IF e > MaxExp THEN [k |-> "inf", f |-> <<>>, e |-> 0]
         ELSE [k |-> "fin", f |-> f, e |-> e]
         : f \in {The({IF \/ BigLt(st.d, r2)
                          \/ (r2 = st.d /\ st.q # <<>> /\ st.q[Len(st.q)] % 2 = 1)
                       THEN Inc(st.q) ELSE st.q
                       : r2 \in {Double(st.r)}})}})

\* the double nearest to num / den, for natural numbers num and den that
\* are not zero.  The binary exponent is first taken too low by a few
\* units (never below MinExp), then raised until the quotient is below
\* 2^53.
NearestDouble(num, den) ==
    The({The({The({The({The({RoundHalfEven(st, nz.e)
                             : st \in {DivLoop([r |-> sc.num, d |-> nz.d, q |-> <<>>], 53)}})
                        : nz \in {Normalise(sc.num, d0, e0)}})
                   : d0 \in {TimesPow2(sc.den, 53)}})
              : sc \in {IF e0 >= 0
                        THEN [num |-> p[1], den |-> TimesPow2(p[2], e0)]
                        ELSE [num |-> TimesPow2(p[1], 0 - e0), den |-> p[2]]}})
         : p \in {<<num, den>>},
           e0 \in {Max(Log2Pow10(Len(num) - Len(den) - 1) - 52, MinExp)}})

\* the natural number F times 2^e, written in decimal: [m, x] for m * 10^x
Exact(F, e) ==
    IF e >= 0 THEN [m |-> TimesPow2(F, e), x |-> 0]
    ELSE [m |-> TimesPow5(F, 0 - e), x |-> e]

\* the decimal of n digits next below the decimal v (or v itself), and
\* the one next above
Down(v, n) == [m |-> SubSeq(v.m, 1, n), x |-> v.x + Len(v.m) - n]
Up(v, n) == [m |-> Inc(SubSeq(v.m, 1, n)), x |-> v.x + Len(v.m) - n]

\* v is nearer to Up(v, n) than to Down(v, n), or as near and the last
\* digit of Down(v, n) is odd
NearerUp(v, n) ==
    \/ v.m[n + 1] > 5
    \/ /\ v.m[n + 1] = 5
       /\ \/ \E j \in (n + 2)..Len(v.m) : v.m[j] # 0
          \/ v.m[n] % 2 = 1

\* the decimal that JavaScript writes for the double f * 2^e (Number
\* toString): of the decimals that read back as this double, those between
\* the halfway points lo and hi to its neighbours, one with the fewest
\* digits, and of these the nearest to the double.  The halfway points
\* read back as the double when f is even.
Shortest(f, e) ==
    The({The({The({The({IF n >= Len(v.m) THEN v
                        ELSE IF ~okUp[n] THEN Down(v, n)
                        ELSE IF ~okDown[n] THEN Up(v, n)
                        ELSE IF NearerUp(v, n) THEN Up(v, n) ELSE Down(v, n)
                        : n \in {CHOOSE n \in 1..17 :
                                    /\ (n >= Len(v.m) \/ okDown[n] \/ okUp[n])
                                    /\ \A j \in 1..(n - 1) :
                                          ~(j >= Len(v.m) \/ okDown[j] \/ okUp[j])}})
                   : okDown \in {[n \in 1..17 |->
                                    /\ n < Len(v.m)
                                    /\ MagLeq(lo, Down(v, n))
                                    /\ (even \/ ~MagLeq(Down(v, n), lo))]},
                     okUp \in {[n \in 1..17 |->
                                    /\ n < Len(v.m)
                                    /\ MagLeq(Up(v, n), hi)
                                    /\ (even \/ ~MagLeq(hi, Up(v, n)))]}})
              : v \in {Exact(f4, e - 2)},
                hi \in {Exact(Inc(Inc(f4)), e - 2)},
                lo \in {Exact(IF f = Two52 /\ e > MinExp THEN Dec(f4) ELSE Dec(Dec(f4)), e - 2)},
                even \in {f[Len(f)] % 2 = 0}})
         : f4 \in {Double(Double(f))}})

\* the number of sign sign whose size is the double nearest to
\* num / den
DoubleOf(sign, num, den) ==
    The({IF b.k = "zero" THEN Decimal(0, <<>>, 0)
         ELSE IF b.k = "inf" THEN Inf(sign)
         ELSE The({Decimal(sign, v.m, v.x) : v \in {Shortest(b.f, b.e)}})
         : b \in {NearestDouble(num, den)}})

\* the double nearest to sign * d * 10^x, for a sequence of digits d:
\* Infinity beyond the largest double, 0 when nearer to 0 than to the
\* smallest one
ToDouble(sign, d, x) ==
    The({IF c.s = 0 THEN c
         ELSE IF Order(c) > 310 THEN Inf(sign)
         ELSE IF Order(c) < 0 - 330 THEN Decimal(0, <<>>, 0)
         ELSE DoubleOf(sign, Shift(c.m, Max(c.x, 0)), Shift(<<1>>, Max(0 - c.x, 0)))
         : c \in {Decimal(sign, d, x)}})

\* the product of the number v and 100, as doubles are multiplied: the
\* double nearest to the product of the two doubles
Times100(v) ==
    IF v.s = 0 THEN v
    ELSE The({DoubleOf(v.s, TimesPow2(Shift(b.f, 2), Max(b.e, 0)),
                       TimesPow2(<<1>>, Max(0 - b.e, 0)))
              : b \in {NearestDouble(Shift(v.m, Max(v.x, 0)), Shift(<<1>>, Max(0 - v.x, 0)))}})

\* Math.round of a number: the nearest integer, a half going up
Round(v) ==
    IF v.x >= 0 THEN v
    ELSE IF Order(v) < 0 THEN Decimal(0, <<>>, 0)
    ELSE The({The({Decimal(v.s, IF up THEN Inc(q) ELSE q, 0)
                   : up \in {IF v.s > 0 THEN frac[1] >= 5
                             ELSE frac[1] > 5 \/ (frac[1] = 5 /\ Len(frac) > 1)}})
              : q \in {SubSeq(v.m, 1, Order(v))},
                frac \in {Zeros(0 - Order(v)) \o SubSeq(v.m, Max(Order(v), 0) + 1, Len(v.m))}})

\* the double written m * 10^x in the source, for an integer m: within
\* the range of the normal doubles a decimal of at most 15 digits is the
\* shortest one that reads back as the double nearest to it
Canon(m, x) ==
    IF m # 0 /\ (NumDigits(Abs(m)) + x > 308 \/ NumDigits(Abs(m)) + x < 0 - 306)
    THEN ToDouble(Sign(m), IntDigits(Abs(m)), x)
    ELSE Decimal(Sign(m), IntDigits(Abs(m)), x)

\* the number of m thousandths
Num(m) == Canon(m, 0 - 3)

\* value <= threshold as JavaScript evaluates it: null converts to 0, and a
\* comparison with NaN (or undefined) is false.  threshold is in thousandths.
JsLeq(v, threshold) ==
    CASE v.k = "num" -> NumLeq(v, Num(threshold))
      [] v.k = "null" -> 0 <= threshold
      [] v.k = "inf" -> v.s < 0
      [] OTHER -> FALSE

---------------------------------------------------------------------------
(* Thresholds and colours, in thousandths *)

SCORE_GOOD == 900
SCORE_NEEDS_IMPROVEMENT == 500
FCP_GOOD == 2000
FCP_NEEDS_IMPROVEMENT == 3000
LCP_GOOD == 2500
LCP_NEEDS_IMPROVEMENT == 4000
TTI_GOOD == 3800
TTI_NEEDS_IMPROVEMENT == 7300
TBT_GOOD == 300000
TBT_NEEDS_IMPROVEMENT == 600000
CLS_GOOD == 100
CLS_NEEDS_IMPROVEMENT == 250

COLORS == [GOOD |-> "#4CAF50", NEEDS_IMPROVEMENT |-> "#FFC107", POOR |-> "#F44336"]

\* getMetricColor with < in place of <=: a value on a cutoff falls in the
\* worse class
getMetricColorStrict(value, goodThreshold, needsImprovementThreshold) ==
    IF JsLeq(value, goodThreshold) /\ value # Num(goodThreshold) THEN COLORS.GOOD
    ELSE IF JsLeq(value, needsImprovementThreshold) /\ value # Num(needsImprovementThreshold)
    THEN COLORS.NEEDS_IMPROVEMENT
    ELSE COLORS.POOR

getMetricColor(value, goodThreshold, needsImprovementThreshold) ==
    IF JsLeq(value, goodThreshold) THEN COLORS.GOOD
    ELSE IF JsLeq(value, needsImprovementThreshold) THEN COLORS.NEEDS_IMPROVEMENT
    ELSE COLORS.POOR

---------------------------------------------------------------------------
(* parseFloat and extractNumericValue *)

Digits == {"0", "1", "2", "3", "4", "5", "6", "7", "8", "9"}

DigitVal(c) ==
    CASE c = "0" -> 0 [] c = "1" -> 1 [] c = "2" -> 2 [] c = "3" -> 3
      [] c = "4" -> 4 [] c = "5" -> 5 [] c = "6" -> 6 [] c = "7" -> 7
      [] c = "8" -> 8 [] c = "9" -> 9

\* s without its first n characters
Drop(s, n) == SubSeq(s, n + 1, Len(s))

\* length of the longest prefix of s made of digits
DigitRun(s) == The({FirstPos([i \in 1..Len(v) |-> v[i] \notin Digits]) - 1 : v \in {s}})

RECURSIVE NatOf(_)
\* the integer written by the few digits d
NatOf(d) ==
    IF d = <<>> THEN 0
    ELSE The({10 * NatOf(SubSeq(v, 1, Len(v) - 1)) + v[Len(v)] : v \in {d}})

\* the natural number written by the digits of an exponent, of any size
ExpVal(ds) == The({Trim([i \in 1..Len(v) |-> DigitVal(v[i])]) : v \in {ds}})

\* the decimal order c + expSign * E of a literal whose digits alone have
\* order c, for an exponent of sign expSign and size E: the integer, or
\* that it lies above ("over") or below ("under") the order of every
\* finite number but 0
OrderOf(c, expSign, E) ==
    The({IF Len(p[3]) <= 4 /\ Abs(p[1]) < 100000
         THEN [k |-> "int", o |-> p[1] + p[2] * NatOf(p[3])]
         ELSE IF p[1] >= 0 /\ p[2] > 0 THEN [k |-> "over", o |-> 0]
         ELSE IF p[1] <= 0 /\ p[2] < 0 THEN [k |-> "under", o |-> 0]
         ELSE The({The({The({IF Len(mag) <= 4 THEN [k |-> "int", o |-> sgn * NatOf(mag)]
                             ELSE IF sgn > 0 THEN [k |-> "over", o |-> 0]
                             ELSE [k |-> "under", o |-> 0]
                             : mag \in {IF sgn = p[2] THEN Sub(p[3], C) ELSE Sub(C, p[3])}})
                        : sgn \in {IF BigLt(p[3], C) THEN Sign(p[1]) ELSE p[2]}})
                   : C \in {IntDigits(Abs(p[1]))}})
         : p \in {<<c, expSign, E>>}})

\* WhiteSpace and LineTerminator of ECMAScript.  A character is a string
\* of one character; those that a TLA+ string cannot hold are written by
\* their code point.
WhiteSpace ==
    {" ", "\t", "\n", "\r", "\f", "U+000B", "U+00A0", "U+FEFF", "U+1680",
     "U+2000", "U+2001", "U+2002", "U+2003", "U+2004", "U+2005", "U+2006",
     "U+2007", "U+2008", "U+2009", "U+200A", "U+2028", "U+2029", "U+202F",
     "U+205F", "U+3000"}

SkipSpace(s) ==
    The({Drop(v, FirstPos([i \in 1..Len(v) |-> v[i] \notin WhiteSpace]) - 1) : v \in {s}})

\* t is a prefix of s
StartsWith(s, t) == Len(s) >= Len(t) /\ SubSeq(s, 1, Len(t)) = t

InfinityText == <<"I", "n", "f", "i", "n", "i", "t", "y">>

\* the literal read: the digits of its integer and fraction parts, nf of
\* them fraction digits, then rest.  An exponent part is e or E, a sign or
\* none, and at least one digit; a literal without any digit is NaN.
ParseExponent(sign, digits, nf, rest) ==
    LET hasE == rest # <<>> /\ Head(rest) \in {"e", "E"}
        afterE == IF hasE THEN Tail(rest) ELSE <<>>
        expSign == IF afterE # <<>> /\ Head(afterE) = "-" THEN 0 - 1 ELSE 1
        expDigits == IF afterE # <<>> /\ Head(afterE) \in {"-", "+"} THEN Tail(afterE) ELSE afterE
    IN  IF digits = <<>> THEN NaN
        ELSE The({IF t = <<>> THEN Decimal(0, <<>>, 0)
                  ELSE The({CASE o.k = "over" -> Inf(sign)
                              [] o.k = "under" -> Decimal(0, <<>>, 0)
                              [] OTHER -> ToDouble(sign, t, o.o - Len(t))
                            : o \in {OrderOf(Len(t) - nf, expSign, E)}})
                  : t \in {Trim([i \in 1..Len(digits) |-> DigitVal(digits[i])])},
                    E \in {ExpVal(SubSeq(expDigits, 1, DigitRun(expDigits)))}})

\* u after its ni integer digits: ".", the fraction digits, the exponent
ParseFraction(sign, u, ni) ==
    LET afterInt == Drop(u, ni)
        hasDot == afterInt # <<>> /\ Head(afterInt) = "."
    IN  The({ParseExponent(sign, SubSeq(u, 1, ni) \o SubSeq(afterInt, 2, 1 + nf), nf,
                           Drop(afterInt, IF hasDot THEN 1 + nf ELSE 0)) :
                nf \in {IF hasDot THEN DigitRun(Tail(afterInt)) ELSE 0}})

\* t without white space in front: a sign or none, then Infinity or a
\* decimal literal
ParseSigned(t) ==
    LET sign == IF t # <<>> /\ Head(t) = "-" THEN 0 - 1 ELSE 1
        u == IF t # <<>> /\ Head(t) \in {"-", "+"} THEN Tail(t) ELSE t
    IN  IF StartsWith(u, InfinityText) THEN Inf(sign)
        ELSE The({ParseFraction(sign, u, ni) : ni \in {DigitRun(u)}})

\* parseFloat(string): leading white space is skipped, then the longest
\* prefix that is a decimal literal (sign, then Infinity or digits, ".",
\* digits and an exponent part) is converted; when there is none the
\* result is NaN
ParseFloat(str) == The({ParseSigned(t) : t \in {SkipSpace(str)}})

\* displayValue.replace(/[^\d.]/g, '')
StripNonNumeric(displayValue) ==
    SelectSeq(displayValue, LAMBDA c : c \in Digits \cup {"."})

extractNumericValue(displayValue) == ParseFloat(StripNonNumeric(displayValue))

---------------------------------------------------------------------------
(* The audit provider's response (data of axios.get) *)

AuditIds == {"fcp", "lcp", "tti", "tbt", "cls"}

\* audits[id] with a displayValue string
Str(s) == [k |-> "str", s |-> s]
\* audits[id] is absent from the payload
EntryMissing == [k |-> "missing", s |-> <<>>]
\* audits[id] is present and has no displayValue
NoDisplay == [k |-> "nodisplay", s |-> <<>>]

\* categories.performance is absent from the payload
PerfMissing == [k |-> "missing", s |-> 0, m |-> <<>>, x |-> 0]

\* the payload of the specification's end-to-end scenario:
\* score 0.93, "1.1 s", "1.8 s", "2.0 s", "50 ms", "0.02"
GoodAudits ==
    [fcp |-> Str(<<"1", ".", "1", " ", "s">>),
     lcp |-> Str(<<"1", ".", "8", " ", "s">>),
     tti |-> Str(<<"2", ".", "0", " ", "s">>),
     tbt |-> Str(<<"5", "0", " ", "m", "s">>),
     cls |-> Str(<<"0", ".", "0", "2">>)]

GoodPayload == [lr |-> TRUE, perf |-> Num(930), audits |-> GoodAudits]

\* a display value without any digit
NoDigits == Str(<<"n", "/", "a">>)

\* a payload with one audit entry changed
WithAudit(id, a) == [GoodPayload EXCEPT !.audits[id] = a]
\* a payload with the performance category changed
WithPerf(pf) == [GoodPayload EXCEPT !.perf = pf]

\* payloads in which one of the six required fields is absent
AbsentFieldPayloads ==
    {WithAudit(id, EntryMissing) : id \in AuditIds} \cup {WithPerf(Undefined)}

\* the responses the provider gives in the state machine
Payloads ==
    {GoodPayload, [GoodPayload EXCEPT !.lr = FALSE], WithPerf(PerfMissing),
     WithAudit("fcp", NoDisplay),
     WithAudit("fcp", NoDigits)}
    \cup AbsentFieldPayloads

---------------------------------------------------------------------------
(* Building a record: lines 117-130 and 161-174 *)

\* data.lighthouseResult.categories.performance.score * 100
AnalyzeScore(score) ==
    CASE score.k = "num" -> Times100(score)
      [] score.k = "null" -> Num(0)
      [] score.k = "inf" -> score
      [] OTHER -> NaN

\* Math.round(data.lighthouseResult.categories.performance.score)
ReRunScore(score) ==
    CASE score.k = "num" -> Round(score)
      [] score.k = "null" -> Num(0)
      [] score.k = "inf" -> score
      [] OTHER -> NaN

\* the property accesses of the object literal that raise a TypeError:
\* a property of undefined is read, or undefined.replace is called
BuildThrows(data) ==
    \/ ~data.lr
    \/ data.perf.k = "missing"
    \/ \E id \in AuditIds : data.audits[id].k = "missing"
    \/ \E id \in AuditIds \ {"cls"} : data.audits[id].k = "nodisplay"

BuildMetrics(audits) ==
    [fcp |-> extractNumericValue(audits.fcp.s),
     lcp |-> extractNumericValue(audits.lcp.s),
     tti |-> extractNumericValue(audits.tti.s),
     tbt |-> extractNumericValue(audits.tbt.s),
     cls |-> IF audits.cls.k = "str" THEN ParseFloat(audits.cls.s) ELSE NaN]

\* BuildMetrics of the payloads of the state machine, computed once
KnownMetrics == [audits \in {data.audits : data \in Payloads} |-> BuildMetrics(audits)]

\* the metrics object of lines 123-129 and 167-173: BuildMetrics(audits),
\* taken from KnownMetrics when it is there
Metrics(audits) ==
    IF audits \in DOMAIN KnownMetrics THEN KnownMetrics[audits] ELSE BuildMetrics(audits)

\* AnalyzeScore of the payloads of the state machine, computed once
KnownScores == [score \in {data.perf : data \in Payloads} |-> AnalyzeScore(score)]

\* the score of line 122: AnalyzeScore(score), taken from KnownScores when
\* it is there
Score(score) ==
    IF score \in DOMAIN KnownScores THEN KnownScores[score] ELSE AnalyzeScore(score)

\* newResult of analyzeWebsite
NewResult(u, st, date, data) ==
    [url |-> u, strategy |-> st, date |-> date,
     score |-> Score(data.perf), metrics |-> Metrics(data.audits)]

\* updatedResult of reRunTest
UpdatedResult(originalUrl, originalStrategy, date, data) ==
    [url |-> originalUrl, strategy |-> originalStrategy, date |-> date,
     score |-> ReRunScore(data.perf), metrics |-> Metrics(data.audits)]

---------------------------------------------------------------------------
(* localStorage and JSON *)

\* getItem returns null
Absent == [k |-> "absent", items |-> <<>>]
\* the stored string is ''
EmptyText == [k |-> "empty", items |-> <<>>]
\* a stored string that is not JSON
Corrupt == [k |-> "corrupt", items |-> <<>>]

\* JSON.stringify of a number: NaN and the infinities are written as null
JsonNumber(v) == IF v.k \in {"nan", "inf"} THEN JNull ELSE v

\* an array position that was never assigned
Hole == [hole |-> TRUE]

\* the element null of a parsed array
NullItem == [null |-> TRUE]

JsonRecord(r) ==
    [url |-> r.url, strategy |-> r.strategy, date |-> r.date,
     score |-> JsonNumber(r.score),
     metrics |-> [id \in AuditIds |-> JsonNumber(r.metrics[id])]]

\* JSON.stringify(updatedResults): a hole of the array is written as null
Stringify(list) ==
    [k |-> "text",
     items |-> [i \in 1..Len(list) |->
                   IF list[i] = Hole THEN NullItem ELSE JsonRecord(list[i])]]

\* if (savedResults): null and '' are falsy
Truthy(blob) == blob.k \notin {"absent", "empty"}

\* JSON.parse raises a SyntaxError
ParseThrows(blob) == blob.k # "text"

\* JSON.parse(savedResults)
Parse(blob) == blob.items

\* a record written by an earlier session
SavedRecord == NewResult("a.com", "mobile", "10/30/2026, 9:00:00 AM", GoodPayload)

InitialBlobs == {Absent, EmptyText, Corrupt, Stringify(<<SavedRecord>>)}

---------------------------------------------------------------------------
(* Messages *)

ErrAnalyze == "Error analyzing website. Please check the URL and try again."
ErrReRun(originalUrl) == "Error re-running test for " \o originalUrl
ErrMissingKey == "Error: Missing API configuration"

---------------------------------------------------------------------------
(* State machine *)

NoOp == [kind |-> "none", url |-> "", strategy |-> "mobile", index |-> 0, captured |-> <<>>]

Last(kind, outcome) == [kind |-> kind, outcome |-> outcome]

\* no call of getMetricColor is under observation
NoProbe == [v |-> 0, g |-> 0, n |-> 0, color |-> ""]

Init ==
    /\ apiKey \in BOOLEAN
    /\ phase = "boot"
    /\ url = ""
    /\ strategy = "mobile"
    /\ results = <<>>
    /\ loading = FALSE
    /\ error = ""
    /\ storage \in InitialBlobs
    /\ op = NoOp
    /\ writable \in BOOLEAN
    /\ last = Last("none", "none")
    /\ probe = NoProbe

\* the component rendered its form and table: the key is set (line 65) and
\* no render or effect has raised
Rendered == apiKey /\ phase = "ready"

\* Load with the effect registered before the test of the key
LoadBeforeKeyCheck ==
    /\ phase = "boot"
    /\ IF ~Truthy(storage)
       THEN phase' = "ready" /\ results' = results /\ last' = Last("load", "ok")
       ELSE IF ParseThrows(storage)
       THEN phase' = "crashed" /\ results' = results /\ last' = Last("load", "throw")
       ELSE phase' = "ready" /\ results' = Parse(storage) /\ last' = Last("load", "ok")
    /\ UNCHANGED <<probe, apiKey, url, strategy, loading, error, storage, op, writable>>

\* the table body (lines 254-257) reads result.date of every element:
\* on an element null this raises a TypeError
RenderThrows(list) == \E i \in 1..Len(list) : list[i] = NullItem

\* the effect of lines 81-86, run once after the first render; an error
\* raised inside it, or by the render of the list it sets, is not caught
\* and unmounts the component
Load ==
    /\ apiKey
    /\ phase = "boot"
    /\ IF ~Truthy(storage)
       THEN phase' = "ready" /\ results' = results /\ last' = Last("load", "ok")
       ELSE IF ParseThrows(storage)
       THEN phase' = "crashed" /\ results' = results /\ last' = Last("load", "throw")
       ELSE IF RenderThrows(Parse(storage))
       THEN phase' = "crashed" /\ results' = Parse(storage) /\ last' = Last("load", "throw")
       ELSE phase' = "ready" /\ results' = Parse(storage) /\ last' = Last("load", "ok")
    /\ UNCHANGED <<probe, apiKey, url, strategy, loading, error, storage, op, writable>>

\* onChange of the text field, line 211
SetUrl(u) ==
    /\ Rendered
    /\ url' = u
    /\ UNCHANGED <<probe, apiKey, phase, strategy, results, loading, error, storage, op, writable, last>>

\* lines 142-144
handleStrategyChange(value) ==
    /\ Rendered
    /\ strategy' = value
    /\ UNCHANGED <<probe, apiKey, phase, url, results, loading, error, storage, op, writable, last>>

\* analyzeWebsite up to its await (lines 98-115); the button is enabled
\* when disabled={loading || !url} is false
AnalyzeStart ==
    /\ Rendered
    /\ ~(loading \/ url = "")
    /\ url # ""
    /\ Len(results) < MaxLen
    /\ loading' = TRUE
    /\ error' = ""
    /\ op' = [kind |-> "analyze", url |-> url, strategy |-> strategy, index |-> 0,
              captured |-> results]
    /\ last' = Last("none", "none")
    /\ UNCHANGED <<probe, apiKey, phase, url, strategy, results, storage, writable>>

\* AnalyzeRejected with the finally block left out: loading stays set
AnalyzeRejectedNoFinally ==
    /\ op.kind = "analyze"
    /\ error' = ErrAnalyze
    /\ op' = NoOp
    /\ last' = Last("analyze", "rejected")
    /\ UNCHANGED <<probe, apiKey, phase, url, strategy, results, loading, storage, writable>>

\* the request is rejected: catch and finally (lines 135-139)
AnalyzeRejected ==
    /\ op.kind = "analyze"
    /\ error' = ErrAnalyze
    /\ loading' = FALSE
    /\ op' = NoOp
    /\ last' = Last("analyze", "rejected")
    /\ UNCHANGED <<probe, apiKey, phase, url, strategy, results, storage, writable>>

\* updatedResults of analyzeWebsite: [newResult, ...results]
Prepend(list, r) == <<r>> \o list

\* the request is answered with data (lines 117-139); a setItem that
\* raises is caught like any other error, after setResults
AnalyzeResponded(data, now) ==
    /\ op.kind = "analyze"
    /\ IF BuildThrows(data)
       THEN /\ error' = ErrAnalyze
            /\ last' = Last("analyze", "malformed")
            /\ UNCHANGED <<results, storage>>
       ELSE LET newResult == NewResult(op.url, op.strategy, now, data)
                updatedResults == Prepend(op.captured, newResult)
            IN  /\ results' = updatedResults
                /\ IF writable
                   THEN /\ storage' = Stringify(updatedResults)
                        /\ error' = error
                        /\ last' = Last("analyze", "ok")
                   ELSE /\ storage' = storage
                        /\ error' = ErrAnalyze
                        /\ last' = Last("analyze", "writefail")
    /\ loading' = FALSE
    /\ op' = NoOp
    /\ UNCHANGED <<probe, apiKey, phase, url, strategy, writable>>

\* ReRunStart taking the url and the strategy of the form instead of the
\* row's
ReRunStartFromForm(index) ==
    /\ Rendered
    /\ ~loading
    /\ index \in 0..(Len(results) - 1)
    /\ loading' = TRUE
    /\ op' = [kind |-> "rerun", url |-> url, strategy |-> strategy, index |-> index,
              captured |-> results]
    /\ last' = Last("none", "none")
    /\ UNCHANGED <<probe, apiKey, phase, url, strategy, results, error, storage, writable>>

\* ReRunStart with the row's button left enabled while loading
ReRunStartWhileLoading(index) ==
    /\ Rendered
    /\ index \in 0..(Len(results) - 1)
    /\ loading' = TRUE
    /\ op' = [kind |-> "rerun", url |-> results[index + 1].url,
              strategy |-> results[index + 1].strategy, index |-> index,
              captured |-> results]
    /\ last' = Last("none", "none")
    /\ UNCHANGED <<probe, apiKey, phase, url, strategy, results, error, storage, writable>>

\* reRunTest up to its await (lines 146-159), called by the row's button
\* (line 322) when disabled={loading} is false
ReRunStart(index) ==
    /\ Rendered
    /\ ~loading
    /\ index \in 0..(Len(results) - 1)
    /\ loading' = TRUE
    /\ op' = [kind |-> "rerun", url |-> results[index + 1].url,
              strategy |-> results[index + 1].strategy, index |-> index,
              captured |-> results]
    /\ last' = Last("none", "none")
    /\ UNCHANGED <<probe, apiKey, phase, url, strategy, results, error, storage, writable>>

\* ReRunRejected with the catch block also dropping the row that failed
ReRunRejectedDropsRow ==
    /\ op.kind = "rerun"
    /\ error' = ErrReRun(op.url)
    /\ loading' = FALSE
    /\ op' = NoOp
    /\ last' = Last("rerun", "rejected")
    /\ results' = SubSeq(op.captured, 1, op.index)
                   \o SubSeq(op.captured, op.index + 2, Len(op.captured))
    /\ storage' = IF writable THEN Stringify(results') ELSE storage
    /\ UNCHANGED <<probe, apiKey, phase, url, strategy, writable>>

\* the request is rejected: catch and finally (lines 180-184)
ReRunRejected ==
    /\ op.kind = "rerun"
    /\ error' = ErrReRun(op.url)
    /\ loading' = FALSE
    /\ op' = NoOp
    /\ last' = Last("rerun", "rejected")
    /\ UNCHANGED <<probe, apiKey, phase, url, strategy, results, storage, writable>>

\* ReplaceAt moving the refreshed record to the front
ReplaceAtMoveToFront(list, index, r) ==
    <<r>> \o SubSeq(list, 1, index) \o SubSeq(list, index + 2, Len(list))

\* updatedResults of reRunTest (lines 176-177): a copy of results with
\* updatedResults[index] assigned. The assignment is not guarded: at
\* index = length it appends, beyond the length it leaves holes in
\* between, and at a negative index it sets a property that is no element
\* of the array (map, length and JSON.stringify do not see it).
ReplaceAt(list, index, r) ==
    IF index \in 0..(Len(list) - 1) THEN [list EXCEPT ![index + 1] = r]
    ELSE IF index >= Len(list)
    THEN list \o [j \in 1..(index - Len(list)) |-> Hole] \o <<r>>
    ELSE list

\* the request is answered with data (lines 161-184)
ReRunResponded(data, now) ==
    /\ op.kind = "rerun"
    /\ IF BuildThrows(data)
       THEN /\ error' = ErrReRun(op.url)
            /\ last' = Last("rerun", "malformed")
            /\ UNCHANGED <<results, storage>>
       ELSE LET updatedResult == UpdatedResult(op.url, op.strategy, now, data)
                updatedResults == ReplaceAt(op.captured, op.index, updatedResult)
            IN  /\ results' = updatedResults
                /\ IF writable
                   THEN /\ storage' = Stringify(updatedResults)
                        /\ error' = error
                        /\ last' = Last("rerun", "ok")
                   ELSE /\ storage' = storage
                        /\ error' = ErrReRun(op.url)
                        /\ last' = Last("rerun", "writefail")
    /\ loading' = FALSE
    /\ op' = NoOp
    /\ UNCHANGED <<probe, apiKey, phase, url, strategy, writable>>

\* the pending request completes
Settle ==
    \/ AnalyzeRejected
    \/ \E data \in Payloads, now \in DATES :
          AnalyzeResponded(data, now)
    \/ ReRunRejected
    \/ \E data \in Payloads, now \in DATES :
          ReRunResponded(data, now)

Next ==
    \/ Load
    \/ \E u \in URLS : SetUrl(u)
    \/ \E value \in STRATEGIES : handleStrategyChange(value)
    \/ AnalyzeStart
    \/ \E index \in 0..(MaxLen - 1) : ReRunStart(index)
    \/ Settle

Spec == Init /\ [][Next]_vars

\* the pending request completes sooner or later
FairSpec == Spec /\ WF_vars(Settle)

---------------------------------------------------------------------------
(* getMetricColor on its own: the arguments are drawn at the start, the  *)
(* value in ten-thousandths and the cutoffs in thousandths, and the call *)
(* stores the colour it returns.                                         *)

ProbeValues == 0..(10 * ProbeMax)
ProbeCutoffs == 0..ProbeMax

ProbeInit ==
    /\ apiKey = TRUE
    /\ phase = "ready"
    /\ url = ""
    /\ strategy = "mobile"
    /\ results = <<>>
    /\ loading = FALSE
    /\ error = ""
    /\ storage = Absent
    /\ op = NoOp
    /\ writable = TRUE
    /\ last = Last("none", "none")
    /\ \E v \in ProbeValues, g \in ProbeCutoffs, n \in ProbeCutoffs :
          /\ g <= n
          /\ probe = [v |-> v, g |-> g, n |-> n, color |-> ""]

Classify ==
    /\ probe.color = ""
    /\ probe' = [probe EXCEPT !.color = getMetricColor(Canon(probe.v, 0 - 4), probe.g, probe.n)]
    /\ UNCHANGED <<apiKey, phase, url, strategy, results, loading, error, storage, op,
                   writable, last>>

ClassifySpec == ProbeInit /\ [][Classify]_vars

---------------------------------------------------------------------------
(* The error texts on the page: the early return of lines 65-73, else the *)
(* error state (line 234); an unmounted component shows nothing.          *)

ErrorsShown ==
    IF ~apiKey THEN {ErrMissingKey}
    ELSE IF phase = "crashed" \/ error = "" THEN {}
    ELSE {error}

---------------------------------------------------------------------------
(* Rendering of a table row: the colours of lines 258-319 *)

RowColors(result) ==
    [score |-> getMetricColor(result.score, SCORE_GOOD, SCORE_NEEDS_IMPROVEMENT),
     fcp |-> getMetricColor(result.metrics.fcp, FCP_GOOD, FCP_NEEDS_IMPROVEMENT),
     lcp |-> getMetricColor(result.metrics.lcp, LCP_GOOD, LCP_NEEDS_IMPROVEMENT),
     tti |-> getMetricColor(result.metrics.tti, TTI_GOOD, TTI_NEEDS_IMPROVEMENT),
     tbt |-> getMetricColor(result.metrics.tbt, TBT_GOOD, TBT_NEEDS_IMPROVEMENT),
     cls |-> getMetricColor(result.metrics.cls, CLS_GOOD, CLS_NEEDS_IMPROVEMENT)]

---------------------------------------------------------------------------
(* Properties *)

\* the handler that just finished was a new analysis or a re-run that
\* reached the end of its try block
Succeeded == last.kind \in {"analyze", "rerun"} /\ last.outcome = "ok"

\* the list that a start-up load would read from the stored item
PersistedList == IF Truthy(storage) /\ ~ParseThrows(storage) THEN Parse(storage) ELSE <<>>

\* this step ends a new analysis with success
AnalysisSucceeds == op.kind = "analyze" /\ last'.kind = "analyze" /\ last'.outcome = "ok"

\* this step ends a re-run with success
ReRunSucceeds == op.kind = "rerun" /\ last'.kind = "rerun" /\ last'.outcome = "ok"

\* this step ends a handler whose request was rejected
RequestFails == op.kind # "none" /\ last'.outcome = "rejected"

\* C1: after a successful new analysis or re-run, the history in memory is
\* identical to the list held under the key pageSpeedResults.
C1_MemoryEqualsPersisted ==
    Succeeded => (Truthy(storage) /\ ~ParseThrows(storage) /\ Parse(storage) = results)

\* C2: a successful new analysis turns history H into the new record
\* followed by H in its previous order, and that same list is what the
\* stored item holds.
C2_PrependAndPersist ==
    [][AnalysisSucceeds =>
        /\ results' = <<results'[1]>> \o results
        /\ results'[1].url = op.url
        /\ results'[1].strategy = op.strategy
        /\ PersistedList' = results']_vars

\* C3: a successful re-run at index i keeps the length of the history,
\* puts a newly built record for the same url and strategy at position i
\* and leaves every other position as it was.
C3_ReRunReplacesOnlySlot ==
    [][ReRunSucceeds =>
        LET i == op.index + 1
        IN  /\ i \in 1..Len(results)
            /\ Len(results') = Len(results)
            /\ \A j \in 1..Len(results) : j # i => results'[j] = results[j]
            /\ \E data \in Payloads, now \in DATES :
                  results'[i] = UpdatedResult(results[i].url, results[i].strategy, now, data)]_vars

\* C3 witness: a re-run has just succeeded on the second row, whose score
\* is one only a re-run stores, behind a row stored by a new analysis.
C3_Witness ==
    /\ Succeeded /\ last.kind = "rerun"
    /\ Len(results) >= 2
    /\ results[1].score = Score(GoodPayload.perf)
    /\ results[2].score = ReRunScore(GoodPayload.perf)

\* C4: the start-up load of an absent or corrupt stored item yields an
\* empty history and raises nothing: the component is ready afterwards.
C4_LoadNeverRaises ==
    (last.kind = "load" /\ storage.k \in {"absent", "empty", "corrupt"})
        => (phase = "ready" /\ results = <<>>)

\* C5: when the request of a new analysis or of a re-run is rejected, the
\* history in memory and the stored item are what they were before.
C5_RequestFailureChangesNothing ==
    [][RequestFails => (results' = results /\ storage' = storage)]_vars

\* C5 witness: a re-run of a row of a history of two has just been rejected.
C5_Witness ==
    last.kind = "rerun" /\ last.outcome = "rejected" /\ Len(results) >= 2

\* C6: a response that lacks one of the five audit entries or the
\* performance score fails the handler and commits nothing, in a new
\* analysis and in a re-run.
C6_AbsentFieldCommitsNothing ==
    [][\A data \in AbsentFieldPayloads, now \in DATES :
          (AnalyzeResponded(data, now) \/ ReRunResponded(data, now))
              => (results' = results /\ storage' = storage /\ last'.outcome = "malformed")]_vars

\* C7: no record of the history or of the stored item holds a metric that
\* is not a number.
C7_NoNaNMetricStored ==
    /\ \A i \in 1..Len(results) : \A id \in AuditIds : results[i].metrics[id].k = "num"
    /\ \A i \in 1..Len(PersistedList) : \A id \in AuditIds : PersistedList[i].metrics[id].k = "num"

\* C8: whenever loading is set, it is cleared again once the request has
\* completed, whatever the outcome.
C8_LoadingCleared == loading ~> ~loading

\* C8 witness: a handler ended by a setItem that raised, and loading is clear.
C8_Witness == last.outcome = "writefail" /\ ~loading

\* C9: the score a new analysis stores for a payload is the score a re-run
\* stores for the same payload.
C9_SameScoreOnBothPaths ==
    [][\A data \in Payloads, now \in DATES :
          (AnalyzeResponded(data, now) /\ ~BuildThrows(data))
              => results'[1].score = UpdatedResult(op.url, op.strategy, now, data).score]_vars

\* C10: the row of a record built by a new analysis from the scenario
\* payload (score 0.93) shows the score and the five metrics as Good.
C10_ScenarioRowAllGood ==
    [][\A now \in DATES :
          AnalyzeResponded(GoodPayload, now)
              => \A cell \in DOMAIN RowColors(results'[1]) :
                    RowColors(results'[1])[cell] = COLORS.GOOD]_vars

\* C11: a non-empty history reached through successful analyses and
\* re-runs comes back from the stored item, at the next start-up load,
\* with the same length and, record by record, the same url, strategy,
\* date, score and five metrics.
C11_RoundTrip ==
    (Succeeded /\ results # <<>>) =>
        /\ Len(PersistedList) = Len(results)
        /\ \A i \in 1..Len(results) :
              /\ PersistedList[i].url = results[i].url
              /\ PersistedList[i].strategy = results[i].strategy
              /\ PersistedList[i].date = results[i].date
              /\ PersistedList[i].score = results[i].score
              /\ \A id \in AuditIds : PersistedList[i].metrics[id] = results[i].metrics[id]

\* C13: for every number v and cutoffs g <= n, getMetricColor(v, g, n) is
\* Good exactly when v <= g, NeedsImprovement exactly when g < v <= n and
\* Poor exactly when v > n; a value equal to g or to n is in the better
\* class.  (probe.v counts ten-thousandths, probe.g and probe.n
\* thousandths.)
C13_ClassifierBands ==
    probe.color # "" =>
        /\ (probe.color = COLORS.GOOD) <=> (probe.v <= 10 * probe.g)
        /\ (probe.color = COLORS.NEEDS_IMPROVEMENT)
               <=> (10 * probe.g < probe.v /\ probe.v <= 10 * probe.n)
        /\ (probe.color = COLORS.POOR) <=> (probe.v > 10 * probe.n)

\* C13 witness: a value equal to the upper cutoff, above the lower one, was
\* classified NeedsImprovement.
C13_Witness ==
    /\ probe.color = COLORS.NEEDS_IMPROVEMENT
    /\ probe.v = 10 * probe.n
    /\ probe.g < probe.n

\* C14: while the request of analyzeWebsite or reRunTest is pending,
\* loading is set, the Analyze button and the re-run button of every row
\* are disabled, and so no second request can be started.
C14_OneRequestAtATime ==
    op.kind # "none" =>
        /\ loading
        /\ ~ENABLED AnalyzeStart
        /\ \A index \in 0..(MaxLen - 1) : ~ENABLED ReRunStart(index)

\* C14 witness: a new analysis is pending while the text field holds a
\* url and the table shows a row.
C14_Witness ==
    op.kind = "analyze" /\ loading /\ url # "" /\ Len(results) >= 1 /\ Len(results) < MaxLen

\* this step ends a new analysis or a re-run without success
OperationFails == op.kind # "none" /\ op' = NoOp /\ last'.outcome # "ok"

\* every record of the history before the step is still in the history
\* after it, at its position counted from the end, except the record at
\* slot skip (0 for none)
RecordsKept(skip) ==
    /\ Len(results') >= Len(results)
    /\ \A j \in 1..Len(results) :
          j # skip => results'[j + Len(results') - Len(results)] = results[j]

\* C15: after the start-up load the history never shrinks: its length
\* grows by exactly one on a successful new analysis, is unchanged by a
\* successful re-run and by a failed operation, a non-empty history never
\* becomes empty, and a record is only lost by a re-run of its own slot.
C15_HistoryNeverShrinks ==
    [][phase = "ready" =>
          /\ AnalysisSucceeds => (Len(results') = Len(results) + 1 /\ RecordsKept(0))
          /\ ReRunSucceeds => (Len(results') = Len(results) /\ RecordsKept(op.index + 1))
          /\ OperationFails => (Len(results') = Len(results) /\ RecordsKept(0))
          /\ Len(results') >= Len(results)
          /\ results # <<>> => results' # <<>>
          /\ op' = op => results' = results]_vars

\* C16: after a successful re-run at index i the record at position i has
\* the url and the strategy of the record that was at position i when the
\* re-run was triggered, whatever the text field and the selector hold and
\* whatever was done to them in between.
C16_ReRunKeepsSlotIdentity ==
    [][ReRunSucceeds =>
          /\ results'[op.index + 1].url = results[op.index + 1].url
          /\ results'[op.index + 1].strategy = results[op.index + 1].strategy
          /\ results'[op.index + 1].url = op.captured[op.index + 1].url
          /\ results'[op.index + 1].strategy = op.captured[op.index + 1].strategy]_vars

\* C16 witness: a re-run has just succeeded on a row whose url and
\* strategy both differ from what the text field and the selector hold.
C16_Witness ==
    /\ Succeeded /\ last.kind = "rerun"
    /\ \E i \in 1..Len(results) :
          /\ results[i].score = ReRunScore(GoodPayload.perf)
          /\ results[i].url # url
          /\ results[i].strategy # strategy

\* C17: when no operation is in progress, an error message is displayed
\* exactly when the new analysis or re-run that completed last failed: a
\* failure sets a message, and a later success removes the message of an
\* earlier failure.
C17_ErrorShownIffLastFailed ==
    (~loading /\ last.kind \in {"analyze", "rerun"})
        => ((error # "") <=> (last.outcome # "ok"))

\* this step ends a new analysis or a re-run whose setItem raised
WriteFails == op.kind # "none" /\ last'.outcome = "writefail"

\* C18: when the write of the stored item fails during a new analysis or
\* a re-run, the stored item stays what it was, the history in memory
\* stays the previous list, and the operation is reported as failed.
C18_WriteFailureKeepsBoth ==
    [][WriteFails =>
          /\ storage' = storage
          /\ results' = results
          /\ error' # ""]_vars

\* C19: when the API key is absent at start-up, in every reachable state
\* no request is pending or was made, the stored history is neither loaded
\* nor written, the history in memory is empty, and the only error
\* presented is the missing-configuration one.
C19_MissingKeyBlocksAll ==
    /\ [](~apiKey =>
            /\ op = NoOp
            /\ ~loading
            /\ last = Last("none", "none")
            /\ phase = "boot"
            /\ results = <<>>
            /\ ErrorsShown = {ErrMissingKey})
    /\ [][~apiKey => storage' = storage]_vars

\* C19 witness: the key is absent while a history of an earlier session is
\* stored under pageSpeedResults; it is not loaded.
C19_Witness ==
    ~apiKey /\ storage = Stringify(<<SavedRecord>>) /\ results = <<>>

===========================================================================
